---- MODULE Spec2Model ----
(***************************************************************************)
(* Model of src/src/main.rs: a small grep -E engine.  A pattern is a       *)
(* sequence of one-character strings, as is an input line.  Tokens are     *)
(* records that mirror enum PatternToken; Option<usize> is an integer      *)
(* with None standing for "no match".  Positions are 0-based as in the     *)
(* source, so the character at position pos of s is s[pos + 1].            *)
(***************************************************************************)
EXTENDS Integers, Sequences, FiniteSets, TLC

(***************************************************************************)
(* Bounds of the explored inputs.                                          *)
(***************************************************************************)
MaxRawLen == 4
MaxRawLine == 2
MaxUnits == 2
MaxInLen == 3
MaxTrimPat == 2
MaxLineLen == 3

SeqsUpTo(S, n) == UNION {[1..k -> S] : k \in 0..n}

(***************************************************************************)
(* Characters.                                                             *)
(***************************************************************************)
AsciiDigits == {"0", "1", "2", "3", "4", "5", "6", "7", "8", "9"}

AsciiLetters ==
    {"a", "b", "c", "d", "e", "f", "g", "h", "i", "j", "k", "l", "m",
     "n", "o", "p", "q", "r", "s", "t", "u", "v", "w", "x", "y", "z",
     "A", "B", "C", "D", "E", "F", "G", "H", "I", "J", "K", "L", "M",
     "N", "O", "P", "Q", "R", "S", "T", "U", "V", "W", "X", "Y", "Z"}

\* char::is_whitespace, the characters str::trim_end drops: the Unicode
\* White_Space code points U+0009..U+000D, U+0020, U+0085, U+00A0, U+1680,
\* U+2000..U+200A, U+2028, U+2029, U+202F, U+205F and U+3000.  Those up to
\* U+1680 are written as the character itself (U+000B, U+0085, U+00A0 and
\* U+1680 have no escape and stand literally between the quotes); a string
\* cannot hold the ones from U+2000 on, which are written by name.
AsciiWhiteSpace == {"\t", "\n", "", "\f", "\r", " "}

WhiteSpace ==
    AsciiWhiteSpace
    \cup {"", " ", " "}
    \cup {"U+2000", "U+2001", "U+2002", "U+2003", "U+2004", "U+2005",
          "U+2006", "U+2007", "U+2008", "U+2009", "U+200A", "U+2028",
          "U+2029", "U+202F", "U+205F", "U+3000"}

is_ascii_digit(c) == c \in AsciiDigits

is_ascii_alphanumeric(c) == c \in AsciiDigits \cup AsciiLetters

\* Option<usize>::None
None == -1

\* What a read of input_chars[pos] with pos >= len stands for (a panic).
OutOfBounds == "<out of bounds>"

(***************************************************************************)
(* enum PatternToken                                                       *)
(***************************************************************************)
Digit == [kind |-> "Digit"]

Word == [kind |-> "Word"]

Char(c) == [kind |-> "Char", c |-> c]

CharGroup(chars, is_negative) ==
    [kind |-> "CharGroup", chars |-> chars, is_negative |-> is_negative]

Plus(token) == [kind |-> "Plus", inner |-> token]

Question(token) == [kind |-> "Question", inner |-> token]

AtomKinds == {"Digit", "Word", "Char", "CharGroup"}

(***************************************************************************)
(* tokenize_pattern                                                        *)
(***************************************************************************)
\* The arm for a backslash followed by `special`.
escape_token(special) ==
    IF special = "d" THEN Digit
    ELSE IF special = "w" THEN Word
    ELSE Char(special)

\* The inner while-let of the '[' arm: from 1-based index j, collect
\* characters up to a ']' (consumed) or the end of the pattern.
RECURSIVE scan_group_esc(_, _, _)
scan_group_esc(p, j, group_chars) ==
    IF j > Len(p) THEN [chars |-> group_chars, next |-> j]
    ELSE IF p[j] = "]" THEN [chars |-> group_chars, next |-> j + 1]
    ELSE IF p[j] = "\\" /\ j < Len(p)
         THEN scan_group_esc(p, j + 2, Append(group_chars, p[j + 1]))
    ELSE scan_group_esc(p, j + 1, Append(group_chars, p[j]))

RECURSIVE scan_group(_, _, _)
scan_group(p, j, group_chars) ==
    IF j > Len(p) THEN [chars |-> group_chars, next |-> j]
    ELSE IF p[j] = "]" THEN [chars |-> group_chars, next |-> j + 1]
    ELSE scan_group(p, j + 1, Append(group_chars, p[j]))

\* The '[' arm; i is the index of the '['.
class_token(p, i) ==
    LET is_negative == i + 1 <= Len(p) /\ p[i + 1] = "^"
        from == IF is_negative THEN i + 2 ELSE i + 1
        g == scan_group(p, from, <<>>)
    IN  [token |-> CharGroup(g.chars, is_negative), next |-> g.next]

\* The quantifier check after a token; next is the index of the peeked
\* character.
RECURSIVE apply_quantifier_nested(_, _, _)
apply_quantifier_nested(p, next, token) ==
    IF next <= Len(p) /\ p[next] = "+"
    THEN apply_quantifier_nested(p, next + 1, Plus(token))
    ELSE IF next <= Len(p) /\ p[next] = "?"
    THEN apply_quantifier_nested(p, next + 1, Question(token))
    ELSE [token |-> token, next |-> next]

apply_quantifier(p, next, token) ==
    IF next <= Len(p) /\ p[next] = "+"
    THEN [token |-> Plus(token), next |-> next + 1]
    ELSE IF next <= Len(p) /\ p[next] = "?"
    THEN [token |-> Question(token), next |-> next + 1]
    ELSE [token |-> token, next |-> next]

\* One iteration of the outer while-let at index i, then the rest.
RECURSIVE tokenize_from(_, _, _)
tokenize_from(p, i, tokens) ==
    IF i > Len(p) THEN tokens
    ELSE IF p[i] = "\\" /\ i = Len(p) THEN tokenize_from(p, i + 1, tokens)
    ELSE LET atom == IF p[i] = "\\"
                     THEN [token |-> escape_token(p[i + 1]), next |-> i + 2]
                     ELSE IF p[i] = "["
                     THEN class_token(p, i)
                     ELSE [token |-> Char(p[i]), next |-> i + 1]
             q == apply_quantifier(p, atom.next, atom.token)
         IN  tokenize_from(p, q.next, Append(tokens, q.token))

tokenize_pattern(pattern) == tokenize_from(pattern, 1, <<>>)

(***************************************************************************)
(* matches_token                                                           *)
(***************************************************************************)
contains(chars, c) == \E k \in 1..Len(chars) : chars[k] = c

matches_token_no_negation(c, token) ==
    CASE token.kind = "Digit" -> is_ascii_digit(c)
      [] token.kind = "Word" -> is_ascii_alphanumeric(c) \/ c = "_"
      [] token.kind = "Char" -> c = token.c
      [] token.kind = "CharGroup" -> contains(token.chars, c)
      [] token.kind = "Plus" -> FALSE
      [] token.kind = "Question" -> FALSE

matches_token(c, token) ==
    CASE token.kind = "Digit" -> is_ascii_digit(c)
      [] token.kind = "Word" -> is_ascii_alphanumeric(c) \/ c = "_"
      [] token.kind = "Char" -> c = token.c
      [] token.kind = "CharGroup" ->
            IF token.is_negative THEN ~contains(token.chars, c)
            ELSE contains(token.chars, c)
      [] token.kind = "Plus" -> FALSE
      [] token.kind = "Question" -> FALSE

(***************************************************************************)
(* match_tokens_at_position / backtrack_match                              *)
(*                                                                         *)
(* backtrack_run follows backtrack_match call by call and returns, next    *)
(* to the returned Option (ret), what the call did: the depth of the       *)
(* deepest chain of nested calls, every matches_token call as              *)
(* <<pos, token>> (its first argument is the read input_chars[pos]), and   *)
(* every recursive call as <<pos, token_idx, pos', token_idx'>>.           *)
(***************************************************************************)
Max2(a, b) == IF a >= b THEN a ELSE b

\* The read input_chars[pos].
char_at(input_chars, pos) ==
    IF pos < Len(input_chars) THEN input_chars[pos + 1] ELSE OutOfBounds

\* The test `pos >= input_chars.len()` that guards the first read of a
\* Plus token and the read of an unquantified token.
past_end_off_by_one(input_chars, pos) == pos > Len(input_chars)

past_end(input_chars, pos) == pos >= Len(input_chars)

\* (1..=max_matches).rev()
RECURSIVE descending(_, _)
descending(hi, lo) ==
    IF hi < lo THEN <<>> ELSE <<hi>> \o descending(hi - 1, lo)

plus_counts_greedy_only(max_matches) == <<max_matches>>

plus_counts(max_matches) == descending(max_matches, 1)

\* (0..=max_matches).rev()
RECURSIVE ascending(_, _)
ascending(lo, hi) ==
    IF hi < lo THEN <<>> ELSE <<lo>> \o ascending(lo + 1, hi)

question_counts_lazy(max_matches) == ascending(0, max_matches)

question_counts(max_matches) == descending(max_matches, 0)

\* The while loop that extends max_matches over the run of characters
\* that satisfy inner_token.
RECURSIVE run_length(_, _, _, _)
run_length(input_chars, inner_token, pos, max_matches) ==
    IF pos + max_matches < Len(input_chars)
    THEN IF matches_token(char_at(input_chars, pos + max_matches), inner_token)
         THEN LET r == run_length(input_chars, inner_token, pos, max_matches + 1)
              IN  [max |-> r.max,
                   calls |-> r.calls \cup {<<pos + max_matches, inner_token>>}]
         ELSE [max |-> max_matches,
               calls |-> {<<pos + max_matches, inner_token>>}]
    ELSE [max |-> max_matches, calls |-> {}]

RECURSIVE backtrack_run(_, _, _, _)
RECURSIVE try_counts(_, _, _, _, _, _)

\* The for loop over num_matches: the first recursive call that returns
\* Some(final_pos) ends it.
try_counts(input_chars, tokens, pos, token_idx, counts, k) ==
    IF k > Len(counts)
    THEN [ret |-> None, depth |-> 0, calls |-> {}, recs |-> {}]
    ELSE LET r == backtrack_run(input_chars, tokens, pos + counts[k], token_idx + 1)
             call == {<<pos, token_idx, pos + counts[k], token_idx + 1>>}
         IN  IF r.ret # None
             THEN [ret |-> r.ret, depth |-> r.depth, calls |-> r.calls,
                   recs |-> r.recs \cup call]
             ELSE LET rest == try_counts(input_chars, tokens, pos, token_idx,
                                         counts, k + 1)
                  IN  [ret |-> rest.ret,
                       depth |-> Max2(r.depth, rest.depth),
                       calls |-> r.calls \cup rest.calls,
                       recs |-> r.recs \cup rest.recs \cup call]

backtrack_run(input_chars, tokens, pos, token_idx) ==
    IF token_idx >= Len(tokens)
    THEN [ret |-> pos, depth |-> 1, calls |-> {}, recs |-> {}]
    ELSE LET token == tokens[token_idx + 1]
             failed(calls) ==
                 [ret |-> None, depth |-> 1, calls |-> calls, recs |-> {}]
         IN  IF token.kind = "Plus"
             THEN IF past_end(input_chars, pos) THEN failed({})
                  ELSE IF ~matches_token(char_at(input_chars, pos), token.inner)
                  THEN failed({<<pos, token.inner>>})
                  ELSE LET run == run_length(input_chars, token.inner, pos, 1)
                           t == try_counts(input_chars, tokens, pos, token_idx,
                                           plus_counts(run.max), 1)
                       IN  [ret |-> t.ret, depth |-> 1 + t.depth,
                            calls |-> {<<pos, token.inner>>} \cup run.calls
                                      \cup t.calls,
                            recs |-> t.recs]
             ELSE IF token.kind = "Question"
             THEN LET in_bounds == pos < Len(input_chars)
                      max_matches ==
                          IF in_bounds
                             /\ matches_token(char_at(input_chars, pos), token.inner)
                          THEN 1 ELSE 0
                      t == try_counts(input_chars, tokens, pos, token_idx,
                                      question_counts(max_matches), 1)
                  IN  [ret |-> t.ret, depth |-> 1 + t.depth,
                       calls |-> (IF in_bounds THEN {<<pos, token.inner>>} ELSE {})
                                 \cup t.calls,
                       recs |-> t.recs]
             ELSE IF past_end(input_chars, pos) THEN failed({})
                  ELSE IF ~matches_token(char_at(input_chars, pos), token)
                  THEN failed({<<pos, token>>})
                  ELSE LET r == backtrack_run(input_chars, tokens, pos + 1,
                                              token_idx + 1)
                       IN  [ret |-> r.ret, depth |-> 1 + r.depth,
                            calls |-> {<<pos, token>>} \cup r.calls,
                            recs |-> r.recs
                                     \cup {<<pos, token_idx, pos + 1, token_idx + 1>>}]

backtrack_match(input_chars, tokens, pos, token_idx) ==
    backtrack_run(input_chars, tokens, pos, token_idx).ret

match_tokens_at_position(input_chars, tokens, start_pos) ==
    backtrack_match(input_chars, tokens, start_pos, 0)

(***************************************************************************)
(* match_pattern, the pure parts                                           *)
(***************************************************************************)
\* str::trim_end
RECURSIVE trim_end(_)
trim_end(line) ==
    IF line # <<>> /\ line[Len(line)] \in WhiteSpace
    THEN trim_end(SubSeq(line, 1, Len(line) - 1))
    ELSE line

\* pattern.strip_prefix('^')
strip_start_anchor(pattern) ==
    IF pattern # <<>> /\ pattern[1] = "^"
    THEN [anchored |-> TRUE, body |-> Tail(pattern)]
    ELSE [anchored |-> FALSE, body |-> pattern]

\* body.strip_suffix('$')
strip_end_anchor(body) ==
    IF body # <<>> /\ body[Len(body)] = "$"
    THEN [anchored |-> TRUE, body |-> SubSeq(body, 1, Len(body) - 1)]
    ELSE [anchored |-> FALSE, body |-> body]

\* The three `tokens.is_empty()` tests for anchor-only patterns.
edge_case_both_only(start_anchored, end_anchored, tokens) ==
    start_anchored /\ end_anchored /\ tokens = <<>>

edge_case(start_anchored, end_anchored, tokens) ==
    \/ start_anchored /\ end_anchored /\ tokens = <<>>
    \/ start_anchored /\ tokens = <<>>
    \/ end_anchored /\ tokens = <<>>

\* The candidate start offsets, in the order the loop visits them.
start_positions_past_end(start_anchored, len) ==
    IF start_anchored THEN <<0>> ELSE ascending(0, len + 1)

start_positions_of(start_anchored, len) ==
    IF start_anchored THEN <<0>> ELSE ascending(0, len)

(***************************************************************************)
(* match_pattern as a state machine.  pc is the position in its body:      *)
(* "trim" (line 134), "anchors" (136-143), "tokenize" (145), "edge"        *)
(* (147-163), "loop" (165-176), "done" (returned), "panicked" (an index    *)
(* into input_chars was out of bounds).                                    *)
(***************************************************************************)
VARIABLES
    pattern,          \* argument pattern
    input_line,       \* argument input_line
    pc,
    input_chars,
    start_anchored,
    end_anchored,
    body,
    tokens,
    start_positions,
    visited,          \* iterations of the start-offset loop begun so far
    result,           \* the returned bool, meaningful once pc = "done"
    path,             \* "edge": returned by an anchor-only test; "matcher": by the loop
    last,             \* start_pos and returned Option of the latest Matcher call
    calls,            \* matches_token calls of all Matcher calls so far
    recs,             \* recursive backtrack_match calls so far
    depth             \* deepest recursion of any Matcher call so far

vars == <<pattern, input_line, pc, input_chars, start_anchored, end_anchored,
          body, tokens, start_positions, visited, result, path, last, calls,
          recs, depth>>

locals == <<input_chars, start_anchored, end_anchored, body, tokens,
            start_positions, visited, result, path, last, calls, recs, depth>>

\* Inputs: arbitrary pattern strings, well-formed or not.
RawChars == {"^", "$", "\\", "[", "]", "+", "?", "a", "d"}

RawLineChars == {"a", "1"}

RawPatterns == SeqsUpTo(RawChars, MaxRawLen)

RawLines == SeqsUpTo(RawLineChars, MaxRawLine)

\* Inputs: patterns built from atoms with an optional quantifier each and
\* optional anchors.
UnitAtoms ==
    {<<"a">>, <<"[", "a", "b", "]">>, <<"[", "^", "a", "]">>, <<"\\", "d">>}

Quantifiers == {<<>>, <<"+">>, <<"?">>}

Units == {a \o q : a \in UnitAtoms, q \in Quantifiers}

RECURSIVE Flatten(_)
Flatten(us) == IF us = <<>> THEN <<>> ELSE Head(us) \o Flatten(Tail(us))

UnitPatterns ==
    {s \o Flatten(us) \o e :
        s \in {<<>>, <<"^">>}, us \in SeqsUpTo(Units, MaxUnits),
        e \in {<<>>, <<"$">>}}

UnitLines == SeqsUpTo({"a", "b", "1"}, MaxInLen)

\* Inputs: lines with white space, against short patterns.
TrimPatterns == SeqsUpTo({"^", "$", "a", " "}, MaxTrimPat)

TrimLines == SeqsUpTo({"a", " ", "\t", "\n", "\f"}, MaxLineLen)

InitLocals ==
    /\ pc = "trim"
    /\ input_chars = <<>>
    /\ start_anchored = FALSE
    /\ end_anchored = FALSE
    /\ body = <<>>
    /\ tokens = <<>>
    /\ start_positions = <<>>
    /\ visited = 0
    /\ result = FALSE
    /\ path = "none"
    /\ last = [start |-> 0, end |-> None]
    /\ calls = {}
    /\ recs = {}
    /\ depth = 0

Init ==
    /\ pattern \in RawPatterns
    /\ input_line \in RawLines
    /\ InitLocals

InitUnits ==
    /\ pattern \in UnitPatterns
    /\ input_line \in UnitLines
    /\ InitLocals

InitTrim ==
    /\ pattern \in TrimPatterns
    /\ input_line \in TrimLines
    /\ InitLocals

\* line 134
Trim ==
    /\ pc = "trim"
    /\ input_chars' = trim_end(input_line)
    /\ pc' = "anchors"
    /\ UNCHANGED <<pattern, input_line, start_anchored, end_anchored, body,
                   tokens, start_positions, visited, result, path, last,
                   calls, recs, depth>>

\* lines 136-143
ResolveAnchors ==
    /\ pc = "anchors"
    /\ LET s == strip_start_anchor(pattern)
           e == strip_end_anchor(s.body)
       IN  /\ start_anchored' = s.anchored
           /\ end_anchored' = e.anchored
           /\ body' = e.body
    /\ pc' = "tokenize"
    /\ UNCHANGED <<pattern, input_line, input_chars, tokens, start_positions,
                   visited, result, path, last, calls, recs, depth>>

\* line 145
Tokenize ==
    /\ pc = "tokenize"
    /\ tokens' = tokenize_pattern(body)
    /\ pc' = "edge"
    /\ UNCHANGED <<pattern, input_line, input_chars, start_anchored,
                   end_anchored, body, start_positions, visited, result, path,
                   last, calls, recs, depth>>

\* lines 147-156, one of the three tests holds
EdgeCase ==
    /\ pc = "edge"
    /\ edge_case(start_anchored, end_anchored, tokens)
    /\ result' = (input_chars = <<>>)
    /\ path' = "edge"
    /\ pc' = "done"
    /\ UNCHANGED <<pattern, input_line, input_chars, start_anchored,
                   end_anchored, body, tokens, start_positions, visited, last,
                   calls, recs, depth>>

\* lines 147-163, none of the three tests holds
StartPositions ==
    /\ pc = "edge"
    /\ ~edge_case(start_anchored, end_anchored, tokens)
    /\ start_positions' = start_positions_of(start_anchored, Len(input_chars))
    /\ pc' = "loop"
    /\ UNCHANGED <<pattern, input_line, input_chars, start_anchored,
                   end_anchored, body, tokens, visited, result, path, last,
                   calls, recs, depth>>

\* lines 165-176, one iteration of the loop
TryStart ==
    /\ pc = "loop"
    /\ visited < Len(start_positions)
    /\ LET start_pos == start_positions[visited + 1]
           run == backtrack_run(input_chars, tokens, start_pos, 0)
           end_pos == run.ret
           accepted == /\ end_pos # None
                       /\ end_anchored => end_pos = Len(input_chars)
       IN  /\ visited' = visited + 1
           /\ last' = [start |-> start_pos, end |-> end_pos]
           /\ calls' = calls \cup run.calls
           /\ recs' = recs \cup run.recs
           /\ depth' = Max2(depth, run.depth)
           /\ IF \E c \in run.calls : c[1] >= Len(input_chars)
              THEN /\ pc' = "panicked"
                   /\ UNCHANGED <<result, path>>
              ELSE IF accepted
              THEN /\ result' = TRUE
                   /\ path' = "matcher"
                   /\ pc' = "done"
              ELSE UNCHANGED <<result, path, pc>>
    /\ UNCHANGED <<pattern, input_line, input_chars, start_anchored,
                   end_anchored, body, tokens, start_positions>>

\* line 178
Exhausted ==
    /\ pc = "loop"
    /\ visited >= Len(start_positions)
    /\ result' = FALSE
    /\ path' = "matcher"
    /\ pc' = "done"
    /\ UNCHANGED <<pattern, input_line, input_chars, start_anchored,
                   end_anchored, body, tokens, start_positions, visited, last,
                   calls, recs, depth>>

Next ==
    \/ Trim
    \/ ResolveAnchors
    \/ Tokenize
    \/ EdgeCase
    \/ StartPositions
    \/ TryStart
    \/ Exhausted

Spec == Init /\ [][Next]_vars

SpecUnits == InitUnits /\ [][Next]_vars

SpecTrim == InitTrim /\ [][Next]_vars

\* match_pattern as a function: the value the state machine returns.
match_pattern(line, pat) ==
    LET chars == trim_end(line)
        s == strip_start_anchor(pat)
        e == strip_end_anchor(s.body)
        toks == tokenize_pattern(e.body)
        starts == start_positions_of(s.anchored, Len(chars))
    IN  IF edge_case(s.anchored, e.anchored, toks) THEN chars = <<>>
        ELSE \E k \in 1..Len(starts) :
                LET end_pos == match_tokens_at_position(chars, toks, starts[k])
                IN  /\ end_pos # None
                    /\ e.anchored => end_pos = Len(chars)

TypeOK ==
    /\ pc \in {"trim", "anchors", "tokenize", "edge", "loop", "done", "panicked"}
    /\ result \in BOOLEAN
    /\ path \in {"none", "edge", "matcher"}

(***************************************************************************)
(* Reference semantics, stated without the search: the end offsets that    *)
(* some assignment of repetition counts reaches.                           *)
(***************************************************************************)
Quantified(token) == token.kind \in {"Plus", "Question"}

AtomOf(token) == IF Quantified(token) THEN token.inner ELSE token

RefSatisfies(c, atom) ==
    \/ atom.kind = "Digit" /\ c \in AsciiDigits
    \/ atom.kind = "Word" /\ c \in AsciiDigits \cup AsciiLetters \cup {"_"}
    \/ atom.kind = "Char" /\ c = atom.c
    \/ atom.kind = "CharGroup"
         /\ (c \in {atom.chars[k] : k \in 1..Len(atom.chars)}) = ~atom.is_negative

RefCounts(token, len) ==
    IF token.kind = "Plus" THEN 1..len
    ELSE IF token.kind = "Question" THEN {0, 1}
    ELSE {1}

RefRun(chars, pos, n, atom) ==
    /\ pos + n <= Len(chars)
    /\ \A k \in 1..n : RefSatisfies(chars[pos + k], atom)

RECURSIVE RefEnds(_, _, _, _)
RefEnds(chars, toks, idx, pos) ==
    IF idx >= Len(toks) THEN {pos}
    ELSE UNION {RefEnds(chars, toks, idx + 1, pos + n) :
                  n \in {m \in RefCounts(toks[idx + 1], Len(chars)) :
                           RefRun(chars, pos, m, AtomOf(toks[idx + 1]))}}

RefStarts(anchored, len) == IF anchored THEN {0} ELSE 0..len

RefMatch(s_anch, e_anch, toks, chars) ==
    \E start \in RefStarts(s_anch, Len(chars)) :
        \E end \in RefEnds(chars, toks, 0, start) :
            e_anch => end = Len(chars)

SetMin(S) == CHOOSE x \in S : \A y \in S : x <= y

\* The search went back on a count: two recursive calls left the same call.
Backtracked == \E r1 \in recs, r2 \in recs : r1[1] = r2[1] /\ r1[2] = r2[2] /\ r1[3] # r2[3]

(***************************************************************************)
(* C1 as stated: the verdict equals the existential reference for every    *)
(* pattern and input.                                                      *)
(***************************************************************************)
C1_Original ==
    pc = "done" =>
        result = RefMatch(start_anchored, end_anchored, tokens, input_chars)

(***************************************************************************)
(* C1 amended: the verdict equals the existential reference, except that   *)
(* a pattern with an anchor and no token reports whether the trimmed       *)
(* input is empty.                                                         *)
(***************************************************************************)
C1_Amended ==
    pc = "done" =>
        result = IF (start_anchored \/ end_anchored) /\ tokens = <<>>
                 THEN input_chars = <<>>
                 ELSE RefMatch(start_anchored, end_anchored, tokens, input_chars)

C1_Witness ==
    /\ pc = "done"
    /\ result
    /\ end_anchored
    /\ Len(tokens) = 2
    /\ tokens[1].kind = "Plus"
    /\ Backtracked
    /\ last.end = Len(input_chars)

(***************************************************************************)
(* C2: an un-anchored pattern without quantifiers reports true iff some    *)
(* contiguous substring of the input, as long as the token sequence,       *)
(* satisfies the tokens' predicates pairwise in order.                     *)
(***************************************************************************)
Unquantified == \A k \in 1..Len(tokens) : ~Quantified(tokens[k])

C2_Substring ==
    (pc = "done" /\ ~start_anchored /\ ~end_anchored /\ Unquantified) =>
        result = \E off \in 0..(Len(input_chars) - Len(tokens)) :
                    \A k \in 1..Len(tokens) :
                        RefSatisfies(input_chars[off + k], tokens[k])

C2_Witness ==
    /\ pc = "done"
    /\ ~start_anchored /\ ~end_anchored /\ Unquantified
    /\ Len(tokens) = 2
    /\ tokens[1].kind = "CharGroup" /\ tokens[1].is_negative
    /\ result
    /\ last.start = 1
    /\ Len(input_chars) = 3

(***************************************************************************)
(* C3: the patterns ^, $ and ^$ report true iff the trimmed input is       *)
(* empty.                                                                  *)
(***************************************************************************)
AnchorOnly == pattern \in {<<"^">>, <<"$">>, <<"^", "$">>}

C3_AnchorOnly ==
    (pc = "done" /\ AnchorOnly) => result = (input_chars = <<>>)

C3_Witness ==
    /\ pc = "done"
    /\ pattern = <<"^">>
    /\ input_chars # <<>>
    /\ ~result

(***************************************************************************)
(* C4 as stated: the Matcher's character sequence is the line minus its    *)
(* trailing newline characters, every other character kept.                *)
(***************************************************************************)
NewlineChars == {"\n", "\r"}

RECURSIVE StripTrailingNewlines(_)
StripTrailingNewlines(line) ==
    IF line # <<>> /\ line[Len(line)] \in NewlineChars
    THEN StripTrailingNewlines(SubSeq(line, 1, Len(line) - 1))
    ELSE line

C4_OnlyNewlinesTrimmed ==
    pc # "trim" => input_chars = StripTrailingNewlines(input_line)

(***************************************************************************)
(* C5: no read of input_chars is out of bounds, for well-formed and        *)
(* malformed patterns alike, and the call does not panic.                  *)
(***************************************************************************)
C5_NoPanic ==
    /\ pc # "panicked"
    /\ \A c \in calls : c[1] < Len(input_chars)
    /\ pc = "done" => result \in BOOLEAN

\* A quantifier without an atom before it, an unterminated class or a
\* dangling backslash, with the Matcher started at offset len and a
\* quantified token reached at pos = len.
C5_Witness ==
    /\ pc = "done"
    /\ body # <<>>
    /\ \/ body[1] \in {"+", "?"}
       \/ body[Len(body)] = "\\"
       \/ (body[1] = "[" /\ \A j \in 1..Len(body) : body[j] # "]")
    /\ input_chars # <<>>
    /\ last.start = Len(input_chars)
    /\ \E r \in recs :
          /\ r[3] = Len(input_chars)
          /\ r[4] < Len(tokens)
          /\ Quantified(tokens[r[4] + 1])

(***************************************************************************)
(* C6 as stated: the anchor-only return is taken only when the body is     *)
(* the empty string after anchor stripping.                                *)
(***************************************************************************)
C6_EdgeOnlyForEmptyBody ==
    path = "edge" => body = <<>>

(***************************************************************************)
(* C7: a Plus or Question token wraps an atom, never another quantified    *)
(* token; a quantifier character with no atom before it is a literal; and  *)
(* matches_token is never called with a Plus or Question token.            *)
(***************************************************************************)
Tokenized == pc \in {"edge", "loop", "done"}

QuantChars == {"+", "?"}

C7_InnerIsAtom ==
    /\ Tokenized =>
         /\ \A k \in 1..Len(tokens) :
               Quantified(tokens[k]) => tokens[k].inner.kind \in AtomKinds
         /\ (body # <<>> /\ body[1] \in QuantChars) =>
               AtomOf(tokens[1]) = Char(body[1])
         /\ (Len(body) >= 3 /\ body[1] = "a" /\ body[2] \in QuantChars
               /\ body[3] \in QuantChars) =>
               /\ tokens[1] \in {Plus(Char("a")), Question(Char("a"))}
               /\ AtomOf(tokens[2]) = Char(body[3])
    /\ \A c \in calls : c[2].kind \in AtomKinds

C7_Witness ==
    /\ pc = "done"
    /\ Len(body) = 4
    /\ tokens = <<Plus(Char("a")), Plus(Char("?"))>>
    /\ calls # {}

(***************************************************************************)
(* C8: a class is negated iff ^ directly follows its [, its members are    *)
(* the characters up to the first following ], verbatim; without a ] the   *)
(* members are all remaining characters, the class is the last token and   *)
(* it has no quantifier.  Stated for a [ that follows only literals.       *)
(***************************************************************************)
SpecialChars == {"\\", "[", "+", "?"}

C8_ClassMembers ==
    Tokenized =>
      \A i \in 1..Len(body) :
        (body[i] = "[" /\ \A j \in 1..(i - 1) : body[j] \notin SpecialChars) =>
          LET neg == i < Len(body) /\ body[i + 1] = "^"
              from == IF neg THEN i + 2 ELSE i + 1
              closes == {j \in from..Len(body) : body[j] = "]"}
          IN  /\ Len(tokens) >= i
              /\ AtomOf(tokens[i]).kind = "CharGroup"
              /\ AtomOf(tokens[i]).is_negative = neg
              /\ IF closes = {}
                 THEN /\ tokens[i] = CharGroup(SubSeq(body, from, Len(body)), neg)
                      /\ Len(tokens) = i
                 ELSE AtomOf(tokens[i]).chars
                         = SubSeq(body, from, SetMin(closes) - 1)

C8_Witness ==
    /\ pc = "done"
    /\ body = <<"[", "^", "\\", "+">>
    /\ tokens = <<CharGroup(<<"\\", "+">>, TRUE)>>

(***************************************************************************)
(* C9: every recursive call of the Matcher advances token_idx by exactly   *)
(* one and never decreases pos, the recursion is at most one deeper than   *)
(* the number of tokens, and the start-offset loop runs at most len + 1    *)
(* iterations.                                                             *)
(***************************************************************************)
C9_Bounded ==
    /\ \A r \in recs : r[4] = r[2] + 1 /\ r[3] >= r[1]
    /\ depth <= Len(tokens) + 1
    /\ visited <= Len(input_chars) + 1

C9_Witness ==
    /\ pc = "done"
    /\ Len(tokens) = 2
    /\ Len(input_chars) = 3
    /\ depth = Len(tokens) + 1
    /\ visited = Len(input_chars) + 1
    /\ Backtracked

(***************************************************************************)
(* C10: an end offset returned by match_tokens_at_position lies between    *)
(* the start offset and len and is the largest one any assignment of       *)
(* repetition counts reaches from that start; so an end-anchored start     *)
(* that is rejected has no assignment ending at len.                       *)
(***************************************************************************)
C10_LargestEnd ==
    last.end # None =>
        LET ends == RefEnds(input_chars, tokens, 0, last.start)
        IN  /\ last.start <= last.end
            /\ last.end <= Len(input_chars)
            /\ last.end \in ends
            /\ \A e \in ends : e <= last.end
            /\ (end_anchored /\ last.end # Len(input_chars)) =>
                   Len(input_chars) \notin ends

C10_Witness ==
    /\ last.end # None
    /\ last.end > last.start
    /\ last.end < Len(input_chars)
    /\ end_anchored
    /\ Cardinality(RefEnds(input_chars, tokens, 0, last.start)) >= 2
====
